---- MODULE Spec2Model ----
(***************************************************************************)
(* A model of crates/egui/src/widgets/text_edit/text_buffer.rs: the        *)
(* TextBuffer trait with its default methods, its four implementations     *)
(* (String, Cow<str>, &str, String64) and the String64 byte cell.          *)
(*                                                                         *)
(* A Rust str is modelled as the sequence of its UTF-8 bytes (integers in  *)
(* 0..255); character indices and byte offsets are therefore different     *)
(* numbers, as they are in the source.  Offsets are 0-based like Rust's,   *)
(* sequences are 1-based like TLA+'s.                                      *)
(***************************************************************************)
EXTENDS Integers, Sequences, FiniteSets, TLC

VARIABLES kind, owned, buf, ccursor, last, pre, steps

vars == <<kind, owned, buf, ccursor, last, pre, steps>>

(***************************************************************************)
(* Bounds of the model.                                                    *)
(***************************************************************************)
\* number of operations applied to one buffer
MaxSteps == 2
\* number of cursor operations applied to one buffer
MaxCursorSteps == 2
\* largest cursor index tried by decrease_indentation
MaxCursor == 8
\* longest run of filler characters in front of a From input
MaxPad == 66
\* number of deleting operations applied to one buffer
MaxDeleteSteps == 1

(***************************************************************************)
(* Program constants.                                                      *)
(***************************************************************************)
\* the width of String64's inner array
Cap == 64
\* epaint::text::TAB_SIZE
TAB_SIZE == 4
\* usize::MAX; TLC's largest integer stands for it, only line 73 compares with it
UsizeMax == 2147483647

(***************************************************************************)
(* Characters used by the inputs, each as its UTF-8 encoding.              *)
(***************************************************************************)
chNul   == <<0>>
chTab   == <<9>>
chNl    == <<10>>
chSp    == <<32>>
chA     == <<97>>
chB     == <<98>>
chX     == <<120>>
chEAcute == <<195, 169>>
chEuro  == <<226, 130, 172>>

Min(a, b) == IF a < b THEN a ELSE b
Max(a, b) == IF a > b THEN a ELSE b

Rep(c, n) == [i \in 1..n |-> c[1]]

(***************************************************************************)
(* UTF-8 as the standard library sees it.                                  *)
(***************************************************************************)
\* the length a leading byte announces, 0 for a byte that cannot lead
CharWidth(b) ==
  IF b < 128 THEN 1
  ELSE IF b >= 194 /\ b <= 223 THEN 2
  ELSE IF b >= 224 /\ b <= 239 THEN 3
  ELSE IF b >= 240 /\ b <= 244 THEN 4
  ELSE 0

IsCont(b) == b >= 128 /\ b <= 191

RECURSIVE Utf8From(_, _)
Utf8From(s, i) ==
  IF i > Len(s) THEN TRUE
  ELSE LET w == CharWidth(s[i])
       IN /\ w > 0
          /\ i + w - 1 <= Len(s)
          /\ \A k \in 1..(w - 1) : IsCont(s[i + k])
          /\ Utf8From(s, i + w)

\* std::str::from_utf8(s).is_ok()
IsUtf8(s) == Utf8From(s, 1)

\* the 1-based positions where a character of the str s starts
CharStarts(s) == {i \in 1..Len(s) : ~IsCont(s[i])}

\* s.chars().count()
CharCount(s) == Cardinality(CharStarts(s))

\* str::is_char_boundary(off), off a 0-based byte offset
IsCharBoundary(s, off) ==
  \/ off = 0
  \/ off = Len(s)
  \/ off > 0 /\ off < Len(s) /\ ~IsCont(s[off + 1])

\* the 0-based byte offset of the n-th character found from position i on:
\* s.char_indices().nth(n), -1 for None
RECURSIVE OffsetWalk(_, _, _)
OffsetWalk(s, i, n) ==
  IF i > Len(s) THEN -1
  ELSE IF IsCont(s[i]) THEN OffsetWalk(s, i + 1, n)
  ELSE IF n = 0 THEN i - 1
  ELSE OffsetWalk(s, i + 1, n - 1)

CharOffset(s, n) == OffsetWalk(s, 1, n)

\* s.chars() as a sequence of characters, each the bytes that encode it
RECURSIVE CharsFrom(_, _)
CharsFrom(s, i) ==
  IF i > Len(s) THEN <<>>
  ELSE LET w == Max(1, CharWidth(s[i]))
           e == Min(Len(s), i + w - 1)
       IN <<SubSeq(s, i, e)>> \o CharsFrom(s, e + 1)

Chars(s) == CharsFrom(s, 1)

\* s.chars().nth(n), <<>> for None
CharAt(s, n) ==
  LET off == CharOffset(s, n)
  IN IF off = -1 THEN <<>>
     ELSE SubSeq(s, off + 1, Min(Len(s), off + Max(1, CharWidth(s[off + 1]))))

RECURSIVE Flatten(_)
Flatten(cs) == IF cs = <<>> THEN <<>> ELSE Head(cs) \o Flatten(Tail(cs))

\* byte_index_from_char_index of text_selection::text_cursor_state: the byte
\* offset of the character at char_index, the byte length when there is none
byte_index_from_char_index(s, char_index) ==
  IF char_index < CharCount(s) THEN CharOffset(s, char_index) ELSE Len(s)

\* String::insert_str(idx, text); it asserts is_char_boundary(idx)
InsertStrPanics(s, idx) == ~IsCharBoundary(s, idx) \/ idx > Len(s)
InsertStr(s, idx, text) == SubSeq(s, 1, idx) \o text \o SubSeq(s, idx + 1, Len(s))

\* String::drain(start..end); it panics on start > end, end > len and on
\* offsets inside a character
DrainPanics(s, start, end) ==
  \/ start > end
  \/ end > Len(s)
  \/ ~IsCharBoundary(s, start)
  \/ ~IsCharBoundary(s, end)
Drain(s, start, end) == SubSeq(s, 1, start) \o SubSeq(s, end + 1, Len(s))

(***************************************************************************)
(* String64: the 64-byte cell.                                             *)
(***************************************************************************)
\* [0u8; 64] with the bytes b copied to its front
Padded(b) == [i \in 1..Cap |-> IF i <= Len(b) THEN b[i] ELSE 0]

\* String64::new(), Default::default()
String64New == Padded(<<>>)

\* String64::len(): the number of bytes in front of the first zero byte
RECURSIVE LenFrom(_, _)
LenFrom(inner, i) ==
  IF i > Len(inner) THEN 0
  ELSE IF inner[i] = 0 THEN 0
  ELSE 1 + LenFrom(inner, i + 1)

String64Len(inner) == LenFrom(inner, 1)

\* String64::as_str(): from_utf8(&inner[0..len()]).unwrap()
String64AsStrPanics(inner) == ~IsUtf8(SubSeq(inner, 1, String64Len(inner)))
String64AsStr(inner) == SubSeq(inner, 1, String64Len(inner))

\* the loop of From<&str>: min walks back until inner[0..min] is valid
RECURSIVE WalkBack(_, _)
WalkBack(inner, min) ==
  IF min = 0 THEN 0
  ELSE IF IsUtf8(SubSeq(inner, 1, min)) THEN min
  ELSE WalkBack(inner, min - 1)

\* String64::from copying one byte too few
String64FromShort(s) == Padded(SubSeq(s, 1, Min(Len(s), Cap - 1)))

\* String64::from(s: &str).  The loop lowers the local min and nothing
\* reads it afterwards: the array returned is the one filled by
\* copy_from_slice.
String64From(s) ==
  LET min0  == Min(Len(s), Cap)
      inner == Padded(SubSeq(s, 1, min0))
      min   == WalkBack(inner, min0)
  IN inner

\* try_from cutting the copy back to the longest prefix that is valid UTF-8
String64TryFromLossy(s) ==
  LET min0  == Min(Len(s), Cap)
      inner == Padded(SubSeq(s, 1, min0))
  IN [ok |-> TRUE, inner |-> Padded(SubSeq(s, 1, WalkBack(inner, min0)))]

\* String64::try_from(s: &[u8]): Ok(String64 {inner}) is [ok |-> TRUE, inner],
\* Err(e) is [ok |-> FALSE]
String64TryFrom(s) ==
  LET min   == Min(Len(s), Cap)
      inner == Padded(SubSeq(s, 1, min))
  IN IF IsUtf8(inner) THEN [ok |-> TRUE, inner |-> inner]
     ELSE [ok |-> FALSE]

\* bytes_to_str(bytes): skip the leading zero bytes, then read up to the
\* next zero byte.  BytesToStrErr is from_utf8 failing on that slice.
RECURSIVE ZerosFrom(_, _)
ZerosFrom(bytes, i) ==
  IF i > Len(bytes) THEN 0
  ELSE IF bytes[i] # 0 THEN 0
  ELSE 1 + ZerosFrom(bytes, i + 1)

BytesToStrSlice(bytes) ==
  LET start == ZerosFrom(bytes, 1)
  IN IF Len(bytes) = 0 THEN <<>>
     ELSE IF start >= Len(bytes) - 1 THEN <<>>
     ELSE LET stop == start + LenFrom(bytes, start + 1)
          IN SubSeq(bytes, start + 1, stop)

BytesToStrErr(bytes) == ~IsUtf8(BytesToStrSlice(bytes))

\* Display for String64, hence to_string(): bytes_to_str(&inner).expect(..)
String64ToStringPanics(inner) == BytesToStrErr(inner)
String64ToString(inner) == BytesToStrSlice(inner)

\* the index after the last zero byte of inner, 0 when there is none: the
\* first loop of push
EndIndex(inner) ==
  LET zeros == {i \in 1..Len(inner) : inner[i] = 0}
  IN IF zeros = {} THEN 0
     ELSE CHOOSE i \in zeros : \A j \in zeros : j <= i

\* push without its capacity check
String64PushUnchecked(inner, s) ==
  LET end_index == EndIndex(inner)
      room      == Cap - end_index
      written   == Min(Len(s), room)
  IN [buf   |-> [i \in 1..Cap |->
                   IF i > end_index /\ i <= end_index + written
                   THEN s[i - end_index] ELSE inner[i]],
      ret   |-> 0,
      panic |-> Len(s) > room]

\* String64::push(s): the result of a call is [buf, ret, panic]
String64Push(inner, s) ==
  IF String64Len(inner) + Len(s) > Cap
  THEN [buf |-> inner, ret |-> 0, panic |-> FALSE]
  ELSE LET end_index == EndIndex(inner)
           room      == Cap - end_index
           written   == Min(Len(s), room)
       IN [buf   |-> [i \in 1..Cap |->
                        IF i > end_index /\ i <= end_index + written
                        THEN s[i - end_index] ELSE inner[i]],
           ret   |-> 0,
           panic |-> Len(s) > room]

(***************************************************************************)
(* The result of a call on a buffer: the buffer afterwards, the value      *)
(* returned (0 for a call that returns nothing) and whether it panicked.   *)
(* A call that panics leaves the buffer as it found it.                    *)
(***************************************************************************)
Done(b, r) == [buf |-> b, ret |-> r, panic |-> FALSE]
Panicked(b) == [buf |-> b, ret |-> 0, panic |-> TRUE]

(***************************************************************************)
(* impl TextBuffer for String                                              *)
(***************************************************************************)
\* insert_text taking the character index for a byte offset
StringInsertTextAtByte(s, text, char_index) ==
  LET byte_idx == Min(char_index, Len(s))
  IN IF InsertStrPanics(s, byte_idx) THEN Panicked(s)
     ELSE Done(InsertStr(s, byte_idx, text), CharCount(text))

StringInsertText(s, text, char_index) ==
  LET byte_idx == byte_index_from_char_index(s, char_index)
  IN IF InsertStrPanics(s, byte_idx) THEN Panicked(s)
     ELSE Done(InsertStr(s, byte_idx, text), CharCount(text))

\* delete_char_range taking the character range for a byte range
StringDeleteByteRange(s, start, end) ==
  IF ~(start <= end) THEN Panicked(s)
  ELSE LET byte_start == Min(start, Len(s))
           byte_end   == Min(end, Len(s))
       IN IF DrainPanics(s, byte_start, byte_end) THEN Panicked(s)
          ELSE Done(Drain(s, byte_start, byte_end), 0)

StringDeleteCharRange(s, start, end) ==
  IF ~(start <= end) THEN Panicked(s)
  ELSE LET byte_start == byte_index_from_char_index(s, start)
           byte_end   == byte_index_from_char_index(s, end)
       IN IF DrainPanics(s, byte_start, byte_end) THEN Panicked(s)
          ELSE Done(Drain(s, byte_start, byte_end), 0)

\* a clear that keeps the text
StringKeep(s) == Done(s, 0)

StringClear(s) == Done(<<>>, 0)

StringReplaceWith(s, text) == Done(text, 0)

(***************************************************************************)
(* impl TextBuffer for &str: the read-only view                            *)
(***************************************************************************)
StrInsertText(s, text, char_index) == Done(s, 0)

StrDeleteCharRange(s, start, end) == Done(s, 0)

(***************************************************************************)
(* impl TextBuffer for String64                                            *)
(***************************************************************************)
String64InsertText(inner, text, char_index) ==
  IF String64AsStrPanics(inner) THEN Panicked(inner)
  ELSE LET byte_idx == byte_index_from_char_index(String64AsStr(inner), char_index)
       IN IF String64ToStringPanics(inner) THEN Panicked(inner)
          ELSE LET temp == String64ToString(inner)
               IN IF InsertStrPanics(temp, byte_idx) THEN Panicked(inner)
                  ELSE Done(String64From(InsertStr(temp, byte_idx, text)),
                            CharCount(text))

String64DeleteCharRange(inner, start, end) ==
  IF ~(start <= end) THEN Panicked(inner)
  ELSE IF String64AsStrPanics(inner) THEN Panicked(inner)
  ELSE LET byte_start == byte_index_from_char_index(String64AsStr(inner), start)
           byte_end   == byte_index_from_char_index(String64AsStr(inner), end)
       IN IF String64ToStringPanics(inner) THEN Panicked(inner)
          ELSE LET temp == String64ToString(inner)
               IN IF DrainPanics(temp, byte_start, byte_end) THEN Panicked(inner)
                  ELSE Done(String64From(Drain(temp, byte_start, byte_end)), 0)

String64Clear(inner) == Done(String64New, 0)

String64ReplaceWith(inner, text) == Done(String64From(text), 0)

(***************************************************************************)
(* The trait's required methods, by implementation.  Cow<str> forwards to  *)
(* String's methods on self.to_mut().                                      *)
(***************************************************************************)
Kinds == {"String", "Cow", "Str", "String64"}

is_mutable(k) == k # "Str"

AsStrPanics(k, b) == k = "String64" /\ String64AsStrPanics(b)

AsStr(k, b) == IF k = "String64" THEN String64AsStr(b) ELSE b

InsertText(k, b, text, char_index) ==
  CASE k = "String"   -> StringInsertText(b, text, char_index)
    [] k = "Cow"      -> StringInsertText(b, text, char_index)
    [] k = "Str"      -> StrInsertText(b, text, char_index)
    [] k = "String64" -> String64InsertText(b, text, char_index)

\* delete_char_range with an assertion that the range ends inside the text
DeleteCharRangeInside(k, b, start, end) ==
  IF is_mutable(k) /\ ~AsStrPanics(k, b) /\ end > CharCount(AsStr(k, b))
  THEN Panicked(b)
  ELSE CASE k = "String"   -> StringDeleteCharRange(b, start, end)
         [] k = "Cow"      -> StringDeleteCharRange(b, start, end)
         [] k = "Str"      -> StrDeleteCharRange(b, start, end)
         [] k = "String64" -> String64DeleteCharRange(b, start, end)

DeleteCharRange(k, b, start, end) ==
  CASE k = "String"   -> StringDeleteCharRange(b, start, end)
    [] k = "Cow"      -> StringDeleteCharRange(b, start, end)
    [] k = "Str"      -> StrDeleteCharRange(b, start, end)
    [] k = "String64" -> String64DeleteCharRange(b, start, end)

(***************************************************************************)
(* The trait's default methods.                                            *)
(***************************************************************************)
\* TextBuffer::clear: delete_char_range(0..self.as_str().len())
DefaultClear(k, b) ==
  IF AsStrPanics(k, b) THEN Panicked(b)
  ELSE DeleteCharRange(k, b, 0, Len(AsStr(k, b)))

\* TextBuffer::replace_with: clear(), then insert_text(text, 0)
DefaultReplaceWith(k, b, text) ==
  LET c == DefaultClear(k, b)
  IN IF c.panic THEN c
     ELSE LET r == InsertText(k, c.buf, text, 0)
          IN [r EXCEPT !.ret = 0]

Clear(k, b) ==
  CASE k = "String"   -> StringClear(b)
    [] k = "Cow"      -> StringClear(b)
    [] k = "Str"      -> DefaultClear(k, b)
    [] k = "String64" -> String64Clear(b)

ReplaceWith(k, b, text) ==
  CASE k = "String"   -> StringReplaceWith(b, text)
    [] k = "Cow"      -> StringReplaceWith(b, text)
    [] k = "Str"      -> DefaultReplaceWith(k, b, text)
    [] k = "String64" -> String64ReplaceWith(b, text)

(***************************************************************************)
(* CCursor: a character index and a row preference.  Its subtraction acts  *)
(* on the index, saturating at 0; its equality compares the index.         *)
(***************************************************************************)
CCursorNew(i) == [index |-> i, prefer_next_row |-> FALSE]

CCursorSub(c, n) == [c EXCEPT !.index = Max(@ - n, 0)]

CCursorEq(c, d) == c.index = d.index

\* find_line_start of text_selection::text_cursor_state: the cursor at the
\* start of the line that holds the cursor, for a cursor inside the text
find_line_start(s, current_index) ==
  LET starts == {p \in 0..current_index.index :
                   p = 0 \/ CharAt(s, p - 1) = chNl}
  IN CCursorNew(CHOOSE p \in starts : \A q \in starts : q <= p)

\* the result of a call that takes a cursor by reference
DoneAt(b, c, r) ==
  [buf |-> b, cur |-> c, ret |-> r, panic |-> FALSE, to_mut |-> TRUE]

PanickedAt(b, c) ==
  [buf |-> b, cur |-> c, ret |-> 0, panic |-> TRUE, to_mut |-> TRUE]

\* TextBuffer::insert_text_at(ccursor, text_to_insert, char_limit)
insert_text_at(k, b, cur, text_to_insert, char_limit) ==
  IF char_limit < UsizeMax
  THEN IF AsStrPanics(k, b) THEN PanickedAt(b, cur)
       ELSE LET cutoff     == Max(char_limit - CharCount(AsStr(k, b)), 0)
                idx        == CharOffset(text_to_insert, cutoff)
                new_string == IF idx = -1 THEN text_to_insert
                              ELSE SubSeq(text_to_insert, 1, idx)
                r          == InsertText(k, b, new_string, cur.index)
            IN IF r.panic THEN PanickedAt(b, cur)
               ELSE DoneAt(r.buf, [cur EXCEPT !.index = @ + r.ret], r.ret)
  ELSE LET r == InsertText(k, b, text_to_insert, cur.index)
       IN IF r.panic THEN PanickedAt(b, cur)
          ELSE DoneAt(r.buf, [cur EXCEPT !.index = @ + r.ret], r.ret)

\* the length decrease_indentation decides to remove, -1 for None
RemoveLen(s, line_start) ==
  IF CharAt(s, line_start.index) = chTab THEN 1
  ELSE IF \A n \in 0..(TAB_SIZE - 1) :
            CharAt(s, line_start.index + n) \in {chSp, <<>>}
       THEN TAB_SIZE
       ELSE -1

\* TextBuffer::decrease_indentation(ccursor); to_mut tells whether
\* delete_char_range was called
decrease_indentation(k, b, cur) ==
  IF AsStrPanics(k, b) THEN [PanickedAt(b, cur) EXCEPT !.to_mut = FALSE]
  ELSE LET line_start == find_line_start(AsStr(k, b), cur)
           len        == RemoveLen(AsStr(k, b), line_start)
       IN IF len = -1 THEN [DoneAt(b, cur, 0) EXCEPT !.to_mut = FALSE]
          ELSE LET r == DeleteCharRange(k, b, line_start.index,
                                        line_start.index + len)
               IN IF r.panic THEN PanickedAt(b, cur)
                  ELSE DoneAt(r.buf,
                              IF ~CCursorEq(cur, line_start)
                              THEN CCursorSub(cur, len) ELSE cur,
                              0)

(***************************************************************************)
(* The deleting default methods.  A Cursor of the layout is a character    *)
(* cursor with a paragraph cursor: [ccursor, pcursor]; a CursorRange is    *)
(* [primary, secondary].  The Galley is the layout of the buffer's text    *)
(* and is modelled by that text: its paragraphs are the parts of the text  *)
(* between line feeds.  A method that returns a CCursor returns it in the  *)
(* cur field of its result.                                                *)
(***************************************************************************)
CCursorAdd(c, n) == [c EXCEPT !.index = @ + n]

\* the 1-based positions of the line feed bytes of the text s
LineFeeds(s) == {j \in 1..Len(s) : <<s[j]>> = chNl}

\* the number of line feeds among the first off bytes of s
LineFeedsBefore(s, off) == Cardinality({j \in LineFeeds(s) : j <= off})

\* the position of the n-th line feed, -1 when there are fewer
NthLineFeed(s, n) ==
  LET found == {j \in LineFeeds(s) : LineFeedsBefore(s, j) = n}
  IN IF found = {} THEN -1 ELSE CHOOSE j \in found : TRUE

\* the character index where paragraph p starts, and the one where it ends
\* (the end of the text for a paragraph the text does not have)
ParagraphStart(s, p) ==
  IF p = 0 THEN 0
  ELSE IF NthLineFeed(s, p) = -1 THEN CharCount(s)
  ELSE CharCount(SubSeq(s, 1, NthLineFeed(s, p)))

ParagraphEnd(s, p) ==
  IF NthLineFeed(s, p + 1) = -1 THEN CharCount(s)
  ELSE CharCount(SubSeq(s, 1, NthLineFeed(s, p + 1) - 1))

\* Galley::from_ccursor on the layout of the text s
from_ccursor(s, c) ==
  LET i == Min(c.index, CharCount(s))
      p == LineFeedsBefore(s, byte_index_from_char_index(s, i))
  IN [ccursor |-> [index |-> i, prefer_next_row |-> c.prefer_next_row],
      pcursor |-> [paragraph |-> p, offset |-> i - ParagraphStart(s, p),
                   prefer_next_row |-> c.prefer_next_row]]

\* Galley::from_pcursor on the layout of the text s: an offset past the end
\* of the paragraph gives the end of the paragraph
from_pcursor(s, pcursor) ==
  LET start  == ParagraphStart(s, pcursor.paragraph)
      end    == ParagraphEnd(s, pcursor.paragraph)
      offset == Min(pcursor.offset, end - start)
  IN [ccursor |-> [index |-> start + offset,
                   prefer_next_row |-> pcursor.prefer_next_row],
      pcursor |-> [pcursor EXCEPT !.offset = offset]]

\* CursorRange::two(min, max) and CursorRange::sorted_cursors
CursorRangeTwo(min, max) == [primary |-> max, secondary |-> min]

sorted_cursors(cursor_range) ==
  IF cursor_range.primary.ccursor.index <= cursor_range.secondary.ccursor.index
  THEN <<cursor_range.primary, cursor_range.secondary>>
  ELSE <<cursor_range.secondary, cursor_range.primary>>

\* TextBuffer::delete_selected_ccursor_range([min, max])
delete_selected_ccursor_range(k, b, min, max) ==
  LET r == DeleteCharRange(k, b, min.index, max.index)
  IN IF r.panic THEN PanickedAt(b, min)
     ELSE DoneAt(r.buf, [index |-> min.index, prefer_next_row |-> TRUE], 0)

\* delete_selected taking the two cursors as they are held, not sorted
delete_selected_unsorted(k, b, cursor_range) ==
  delete_selected_ccursor_range(k, b, cursor_range.primary.ccursor,
                                cursor_range.secondary.ccursor)

\* TextBuffer::delete_selected(cursor_range)
delete_selected(k, b, cursor_range) ==
  LET sorted == sorted_cursors(cursor_range)
  IN delete_selected_ccursor_range(k, b, sorted[1].ccursor, sorted[2].ccursor)

\* delete_previous_char that deletes at index 0 as well
delete_previous_char_unguarded(k, b, cur) ==
  delete_selected_ccursor_range(k, b, CCursorSub(cur, 1), cur)

\* TextBuffer::delete_previous_char(ccursor)
delete_previous_char(k, b, cur) ==
  IF cur.index > 0
  THEN LET max_ccursor == cur
           min_ccursor == CCursorSub(max_ccursor, 1)
       IN delete_selected_ccursor_range(k, b, min_ccursor, max_ccursor)
  ELSE [DoneAt(b, cur, 0) EXCEPT !.to_mut = FALSE]

\* TextBuffer::delete_next_char(ccursor)
delete_next_char(k, b, cur) ==
  delete_selected_ccursor_range(k, b, cur, CCursorAdd(cur, 1))

\* delete_paragraph_before_cursor that always deletes the range it found
delete_to_paragraph_start(k, b, s, cursor_range) ==
  LET sorted == sorted_cursors(cursor_range)
      max    == sorted[2]
      min    == from_pcursor(s, [paragraph |-> sorted[1].pcursor.paragraph,
                                 offset |-> 0, prefer_next_row |-> TRUE])
  IN delete_selected(k, b, CursorRangeTwo(min, max))

\* TextBuffer::delete_paragraph_before_cursor(galley, cursor_range), the
\* galley being the layout of the text s
delete_paragraph_before_cursor(k, b, s, cursor_range) ==
  LET sorted == sorted_cursors(cursor_range)
      max    == sorted[2]
      min    == from_pcursor(s, [paragraph |-> sorted[1].pcursor.paragraph,
                                 offset |-> 0, prefer_next_row |-> TRUE])
  IN IF CCursorEq(min.ccursor, max.ccursor)
     THEN delete_previous_char(k, b, min.ccursor)
     ELSE delete_selected(k, b, CursorRangeTwo(min, max))

\* TextBuffer::delete_paragraph_after_cursor(galley, cursor_range)
delete_paragraph_after_cursor(k, b, s, cursor_range) ==
  LET sorted == sorted_cursors(cursor_range)
      min    == sorted[1]
      max    == from_pcursor(s, [paragraph |-> sorted[2].pcursor.paragraph,
                                 offset |-> UsizeMax,
                                 prefer_next_row |-> FALSE])
  IN IF CCursorEq(min.ccursor, max.ccursor)
     THEN delete_next_char(k, b, min.ccursor)
     ELSE delete_selected(k, b, CursorRangeTwo(min, max))

(***************************************************************************)
(* The state: one buffer of one of the four implementations (buf holds the *)
(* bytes of the text, for String64 the 64 bytes of inner; owned tells a    *)
(* Cow::Owned from a Cow::Borrowed), the caller's cursor, and the call     *)
(* made last: its name, arguments, result, and the buffer before it (pre). *)
(* A panic ends the run.                                                   *)
(***************************************************************************)
NoText == <<>>

Call(op, text, a, b, ret, out, panic) ==
  [op |-> op, text |-> text, a |-> a, b |-> b, ret |-> ret, out |-> out,
   panic |-> panic]

NoCall == Call("none", NoText, 0, 0, 0, NoText, FALSE)

\* the inputs
Hello == <<104, 101, 108, 108, 111>>
World == <<32, 119, 111, 114, 108, 100>>
Cafe  == <<99, 97, 102>> \o chEAcute

\* texts that fill a String64, or nearly
LongContents ==
  { Rep(chA, Cap - 1), Rep(chA, Cap), Rep(chA, Cap - 2) \o chEAcute }

ShortContents == { <<>>, Cafe, chEAcute \o chNl \o chA }

IndentedContents ==
  { chTab \o chA \o chB,
    Rep(chSp, 4) \o chX,
    chA \o chNl \o chSp \o chSp,
    chEAcute \o chNl \o Rep(chSp, 4) \o chA,
    chA \o chNl \o chTab \o chEAcute }

Texts == { <<>>, chEAcute, chA \o chEAcute }

PushTexts == { <<>>, Hello, World }

ReplaceTexts == { chEAcute \o chB, Rep(chA, Cap - 1) \o chEAcute }

Limits == { 3, Cap + 1, UsizeMax }

\* the character indices tried in a text of n characters
Positions(n) == {p \in {0, 1, n - 1, n} : p >= 0 /\ p <= n}

\* the number of characters of the buffer, 0 when as_str() would panic
Count == IF AsStrPanics(kind, buf) THEN 0 ELSE CharCount(AsStr(kind, buf))

Construct(k, s) == IF k = "String64" THEN String64From(s) ELSE s

InitWith(contents) ==
  /\ kind \in Kinds
  /\ owned \in (IF kind = "Cow" THEN BOOLEAN ELSE {FALSE})
  /\ \E s \in contents \cup (IF kind = "String64" THEN LongContents ELSE {}) :
       buf = Construct(kind, s)
  /\ ccursor = CCursorNew(0)
  /\ last = NoCall
  /\ pre = buf
  /\ steps = 0

\* what every call does to the state besides its own result
Step(r, call, to_mut) ==
  /\ buf' = r.buf
  /\ pre' = buf
  /\ last' = call
  /\ steps' = steps + 1
  /\ kind' = kind
  /\ owned' = (owned \/ (kind = "Cow" /\ to_mut))

(***************************************************************************)
(* Spec: the editing primitives and push on a buffer.                      *)
(***************************************************************************)
Init == InitWith(ShortContents)

Ready == steps < MaxSteps /\ ~last.panic

DoInsertText ==
  /\ Ready
  /\ \E text \in Texts, ci \in Positions(Count) :
       LET r == InsertText(kind, buf, text, ci)
       IN Step(r, Call("insert_text", text, ci, 0, r.ret, NoText, r.panic),
               TRUE)
  /\ UNCHANGED ccursor

DoDeleteCharRange ==
  /\ Ready
  /\ LET n == Count
     IN \E start \in Positions(n) :
          \E end \in (Positions(n) \cup {start + 1, start + 2}) :
            /\ start <= end
            /\ end <= n
            /\ LET r == DeleteCharRange(kind, buf, start, end)
               IN Step(r, Call("delete_char_range", NoText, start, end, 0,
                               NoText, r.panic), TRUE)
  /\ UNCHANGED ccursor

DoClear ==
  /\ Ready
  /\ LET r == Clear(kind, buf)
     IN Step(r, Call("clear", NoText, 0, 0, 0, NoText, r.panic), TRUE)
  /\ UNCHANGED ccursor

DoReplaceWith ==
  /\ Ready
  /\ \E text \in ReplaceTexts :
       LET r == ReplaceWith(kind, buf, text)
       IN Step(r, Call("replace_with", text, 0, 0, 0, NoText, r.panic),
               TRUE)
  /\ UNCHANGED ccursor

DoPush ==
  /\ Ready
  /\ kind = "String64"
  /\ \E s \in PushTexts :
       LET r == String64Push(buf, s)
       IN Step(r, Call("push", s, 0, 0, 0, NoText, r.panic), FALSE)
  /\ UNCHANGED ccursor

Next ==
  \/ DoInsertText
  \/ DoDeleteCharRange
  \/ DoClear
  \/ DoReplaceWith
  \/ DoPush

Spec == Init /\ [][Next]_vars

(***************************************************************************)
(* SpecCursor: the default methods that take the caller's cursor.          *)
(***************************************************************************)
InitCursor == InitWith(ShortContents \cup IndentedContents)

ReadyCursor == steps < MaxCursorSteps /\ ~last.panic

DoInsertTextAt ==
  /\ ReadyCursor
  /\ \E text \in Texts, limit \in Limits, ci \in {Count, ccursor.index} :
       LET r == insert_text_at(kind, buf, CCursorNew(ci), text, limit)
       IN /\ Step(r, Call("insert_text_at", text, ci, limit, r.ret, NoText,
                          r.panic), TRUE)
          /\ ccursor' = r.cur

DoDecreaseIndentation ==
  /\ ReadyCursor
  /\ \E ci \in 0..Min(Count, MaxCursor) :
       LET r == decrease_indentation(kind, buf, CCursorNew(ci))
       IN /\ Step(r, Call("decrease_indentation", NoText, ci, 0, 0, NoText,
                          r.panic), r.to_mut)
          /\ ccursor' = r.cur

NextCursor ==
  \/ DoInsertTextAt
  \/ DoDecreaseIndentation

SpecCursor == InitCursor /\ [][NextCursor]_vars

(***************************************************************************)
(* SpecDelete: delete_char_range with a range the contract forbids, and    *)
(* the deleting default methods.  The cursors of a selection come from the *)
(* layout of the buffer's text.  last.a and last.b hold the character      *)
(* indices given (of the primary and the secondary cursor of a selection); *)
(* for a method taking one CCursor last.b is 1 when that cursor prefers    *)
(* the next row, else 0.  The cursor returned becomes the caller's.        *)
(***************************************************************************)
ParagraphContents ==
  { chA \o chEAcute \o chNl \o chB \o chNl \o chNl \o chX }

\* a String64 is also tried full
InitDelete ==
  /\ kind \in Kinds
  /\ owned \in (IF kind = "Cow" THEN BOOLEAN ELSE {FALSE})
  /\ \E s \in ShortContents \cup ParagraphContents
               \cup (IF kind = "String64" THEN {Rep(chA, Cap)} ELSE {}) :
       buf = Construct(kind, s)
  /\ ccursor = CCursorNew(0)
  /\ last = NoCall
  /\ pre = buf
  /\ steps = 0

ReadyDelete ==
  steps < MaxDeleteSteps /\ ~last.panic /\ ~AsStrPanics(kind, buf)

\* the selections tried in a text of n characters: <<primary, secondary>>
Selections(n) ==
  {<<p, q>> \in (0..Min(n, MaxCursor)) \X (0..Min(n, MaxCursor)) :
     p \in {q, q + 1, 0}}

CursorRangeAt(s, sel) ==
  [primary   |-> from_ccursor(s, CCursorNew(sel[1])),
   secondary |-> from_ccursor(s, CCursorNew(sel[2]))]

DoDeleteCharRangeOutside ==
  /\ ReadyDelete
  /\ LET n == Count
     IN \E start \in {0, n, n + 1}, end \in {0, n, n + 1, n + 2} :
          /\ start > end \/ end > n
          /\ LET r == DeleteCharRange(kind, buf, start, end)
             IN Step(r, Call("delete_char_range", NoText, start, end, 0,
                             NoText, r.panic), TRUE)
  /\ UNCHANGED ccursor

DoDeleteSelected ==
  /\ ReadyDelete
  /\ \E sel \in Selections(Count) :
       LET r == delete_selected(kind, buf,
                                CursorRangeAt(AsStr(kind, buf), sel))
       IN /\ Step(r, Call("delete_selected", NoText, sel[1], sel[2], 0,
                          NoText, r.panic), r.to_mut)
          /\ ccursor' = r.cur

DoDeletePreviousChar ==
  /\ ReadyDelete
  /\ \E ci \in Positions(Count), prefer_next_row \in BOOLEAN :
       LET cur == [index |-> ci, prefer_next_row |-> prefer_next_row]
           r   == delete_previous_char(kind, buf, cur)
       IN /\ Step(r, Call("delete_previous_char", NoText, ci,
                          IF prefer_next_row THEN 1 ELSE 0, 0, NoText,
                          r.panic), r.to_mut)
          /\ ccursor' = r.cur

DoDeleteNextChar ==
  /\ ReadyDelete
  /\ \E ci \in Positions(Count), prefer_next_row \in BOOLEAN :
       LET cur == [index |-> ci, prefer_next_row |-> prefer_next_row]
           r   == delete_next_char(kind, buf, cur)
       IN /\ Step(r, Call("delete_next_char", NoText, ci,
                          IF prefer_next_row THEN 1 ELSE 0, 0, NoText,
                          r.panic), r.to_mut)
          /\ ccursor' = r.cur

DoDeleteParagraphBeforeCursor ==
  /\ ReadyDelete
  /\ \E sel \in Selections(Count) :
       LET s == AsStr(kind, buf)
           r == delete_paragraph_before_cursor(kind, buf, s,
                                               CursorRangeAt(s, sel))
       IN /\ Step(r, Call("delete_paragraph_before_cursor", NoText, sel[1],
                          sel[2], 0, NoText, r.panic), r.to_mut)
          /\ ccursor' = r.cur

DoDeleteParagraphAfterCursor ==
  /\ ReadyDelete
  /\ \E sel \in Selections(Count) :
       LET s == AsStr(kind, buf)
           r == delete_paragraph_after_cursor(kind, buf, s,
                                              CursorRangeAt(s, sel))
       IN /\ Step(r, Call("delete_paragraph_after_cursor", NoText, sel[1],
                          sel[2], 0, NoText, r.panic), r.to_mut)
          /\ ccursor' = r.cur

NextDelete ==
  \/ DoDeleteCharRangeOutside
  \/ DoDeleteSelected
  \/ DoDeletePreviousChar
  \/ DoDeleteNextChar
  \/ DoDeleteParagraphBeforeCursor
  \/ DoDeleteParagraphAfterCursor

SpecDelete == InitDelete /\ [][NextDelete]_vars

(***************************************************************************)
(* SpecFrom: String64::from(s) on any str, and as_str() on what it built.  *)
(* The as_str call keeps the text the buffer was built from in last.text   *)
(* and puts the str it returns in last.out.  String64::try_from(s) on any  *)
(* bytes: last.ret is 1 for Ok, and buf then holds the String64 returned,  *)
(* and 0 for Err.                                                          *)
(***************************************************************************)
Suffixes ==
  { <<>>, chA, chEAcute, chEuro, chNul,
    chEAcute \o chA, chA \o chEuro, chNul \o chA, chA \o chNul \o chB }

PadLens == {0, 1} \cup ((Cap - 4)..MaxPad)

FromInputs == { Rep(chA, n) \o suf : n \in PadLens, suf \in Suffixes }

InitFrom ==
  /\ kind = "String64"
  /\ owned = FALSE
  /\ buf = String64New
  /\ ccursor = CCursorNew(0)
  /\ last = NoCall
  /\ pre = buf
  /\ steps = 0

DoFrom ==
  /\ last.op = "none"
  /\ \E s \in FromInputs :
       Step(Done(String64From(s), 0),
            Call("from", s, 0, 0, 0, NoText, FALSE), FALSE)
  /\ UNCHANGED ccursor

DoAsStr ==
  /\ last.op = "from"
  /\ Step(Done(buf, 0),
          Call("as_str", last.text, 0, 0, 0,
               IF String64AsStrPanics(buf) THEN NoText ELSE String64AsStr(buf),
               String64AsStrPanics(buf)),
          FALSE)
  /\ UNCHANGED ccursor

\* endings that are not UTF-8: a continuation byte alone, the first byte or
\* the first two of a longer character, a byte no character holds
ByteSuffixes == { <<169>>, <<195>>, <<97, 226, 130>>, <<255, 97>> }

TryFromInputs ==
  FromInputs \cup { Rep(chA, n) \o suf : n \in PadLens, suf \in ByteSuffixes }

DoTryFrom ==
  /\ last.op = "none"
  /\ \E s \in TryFromInputs :
       LET r == String64TryFrom(s)
       IN Step(Done(IF r.ok THEN r.inner ELSE buf, IF r.ok THEN 1 ELSE 0),
               Call("try_from", s, 0, 0, IF r.ok THEN 1 ELSE 0, NoText,
                    FALSE),
               FALSE)
  /\ UNCHANGED ccursor

NextFrom ==
  \/ DoFrom
  \/ DoAsStr
  \/ DoTryFrom

SpecFrom == InitFrom /\ [][NextFrom]_vars

(***************************************************************************)
(* The claims.                                                             *)
(***************************************************************************)
IsPrefix(p, s) == Len(p) <= Len(s) /\ SubSeq(s, 1, Len(p)) = p

HasNul(s) == \E i \in 1..Len(s) : s[i] = 0

\* the text of the buffer before and after the last call
Before == AsStr(kind, pre)
After == AsStr(kind, buf)

\* C1: for every str s longer than 64 bytes, as_str() on String64::from(s)
\* does not panic and returns valid UTF-8 that is a prefix of s ending on a
\* character boundary of s.
C1_TruncationSafe ==
  (last.op = "as_str" /\ Len(last.text) > Cap) =>
    /\ ~last.panic
    /\ IsUtf8(last.out)
    /\ IsPrefix(last.out, last.text)
    /\ IsCharBoundary(last.text, Len(last.out))

\* C4, as claimed: for every str s of at most 64 bytes, U+0000 included,
\* String64::from(s).as_str() == s.
C4_RoundTripAnyCodePoint ==
  (last.op = "as_str" /\ Len(last.text) <= Cap) =>
    (~last.panic /\ last.out = last.text)

\* C4, amended: for every str s of at most 64 bytes that holds no U+0000,
\* String64::from(s).as_str() == s.
C4_RoundTripNoNul ==
  (last.op = "as_str" /\ Len(last.text) <= Cap /\ ~HasNul(last.text)) =>
    (~last.panic /\ last.out = last.text)

\* a 64-byte text ending in a two-byte character has made the round trip
C4_Witness ==
  /\ last.op = "as_str"
  /\ last.text = Rep(chA, Cap - 2) \o chEAcute
  /\ last.out = last.text

\* C2: push(s) on a String64 with len() + s.len() <= 64 does not panic and
\* leaves the old text followed by s, with len() grown by s.len().
C2_PushAppends ==
  (/\ last.op = "push"
   /\ ~String64AsStrPanics(pre)
   /\ String64Len(pre) + Len(last.text) <= Cap) =>
    /\ ~last.panic
    /\ ~String64AsStrPanics(buf)
    /\ String64AsStr(buf) = String64AsStr(pre) \o last.text
    /\ String64Len(buf) = String64Len(pre) + Len(last.text)

\* the 64 bytes are valid UTF-8 without a zero byte, then zero bytes only
WellFormed64(inner) ==
  LET n == String64Len(inner)
  IN /\ IsUtf8(SubSeq(inner, 1, n))
     /\ \A i \in (n + 1)..Cap : inner[i] = 0

\* C3: whatever edits and pushes with valid arguments were made, a String64
\* holds valid UTF-8 without a zero byte followed by zero bytes only, and no
\* call has panicked.
C3_String64Invariant ==
  kind = "String64" => (WellFormed64(buf) /\ ~last.panic)

\* the step delete_char_range(ci..ci + t.chars().count()) right after
\* insert_text(t, ci)
InsertThenDelete ==
  /\ last.op = "insert_text"
  /\ last'.op = "delete_char_range"
  /\ last'.a = last.a
  /\ last'.b = last.a + CharCount(last.text)

\* C5, as claimed: on every implementation, insert_text(t, ci) followed by
\* delete_char_range(ci..ci + t.chars().count()) restores the text there was
\* before the insert.
C5_InsertDeleteRestores ==
  [][InsertThenDelete =>
       (/\ ~last'.panic
        /\ ~AsStrPanics(kind, buf')
        /\ AsStr(kind, buf') = AsStr(kind, pre))]_vars

\* C5, amended: the same for String, Cow<str> and &str, and for String64
\* when the text before the insert and t fit in 64 bytes together.
C5_InsertDeleteRestoresIfFits ==
  [][(/\ InsertThenDelete
      /\ kind = "String64" => Len(AsStr(kind, pre)) + Len(last.text) <= Cap) =>
       (/\ ~last'.panic
        /\ ~AsStrPanics(kind, buf')
        /\ AsStr(kind, buf') = AsStr(kind, pre))]_vars

\* a String64 holding "caf\u{e9}" with "\u{e9}" inserted at character 1 (the
\* text "c\u{e9}af\u{e9}", which only that insert_text builds) holds
\* "caf\u{e9}" again after delete_char_range(1..2)
C5_Witness ==
  /\ kind = "String64"
  /\ last.op = "delete_char_range"
  /\ last.a = 1
  /\ last.b = 2
  /\ Before = <<99>> \o chEAcute \o <<97, 102>> \o chEAcute
  /\ After = Cafe

\* C7: insert_text returns the number of characters inserted: the character
\* count after the call minus the count before it.
C7_ReturnsInserted ==
  (last.op = "insert_text" /\ ~AsStrPanics(kind, pre)) =>
    /\ ~last.panic
    /\ ~AsStrPanics(kind, buf)
    /\ last.ret = CharCount(After) - CharCount(Before)

\* the characters cs without those at the 0-based indices [a, b)
RemoveChars(cs, a, b) ==
  [i \in 1..(Len(cs) - (b - a)) |-> IF i <= a THEN cs[i] ELSE cs[i + (b - a)]]

\* C10: on String, Cow<str> and String64, delete_char_range(start..end) with
\* start <= end <= char count leaves the characters of the text without those
\* at [start, end), in order and whole.
C10_DeleteRemovesRange ==
  (/\ last.op = "delete_char_range"
   /\ is_mutable(kind)
   /\ ~AsStrPanics(kind, pre)) =>
    /\ ~last.panic
    /\ ~AsStrPanics(kind, buf)
    /\ After = Flatten(RemoveChars(Chars(Before), last.a, last.b))

\* "caf\u{e9}" with 1..3 deleted is "c\u{e9}"
C10_Witness ==
  /\ kind = "String"
  /\ last.op = "delete_char_range"
  /\ last.a = 1
  /\ last.b = 3
  /\ pre = Cafe
  /\ buf = <<99>> \o chEAcute

\* the byte prefixes of text that end on a character boundary
BoundaryPrefixes(text) ==
  {SubSeq(text, 1, j) : j \in {i \in 0..Len(text) : IsCharBoundary(text, i)}}

\* C6: after insert_text_at(cursor, text, n) with n < usize::MAX on a buffer
\* of at most n characters, the buffer holds at most n characters, and what
\* was inserted is a prefix of text cut at a character boundary: the stored
\* text is the old text with such a prefix put in at the cursor, or (a
\* String64 that filled up) the part of that which fits.
C6_CapacityClamp ==
  (/\ last.op = "insert_text_at"
   /\ last.b < UsizeMax
   /\ ~AsStrPanics(kind, pre)
   /\ CharCount(Before) <= last.b) =>
    /\ ~last.panic
    /\ ~AsStrPanics(kind, buf)
    /\ CharCount(After) <= last.b
    /\ \E p \in BoundaryPrefixes(last.text) :
         IsPrefix(After,
                  InsertStr(Before,
                            byte_index_from_char_index(Before, last.a), p))

\* the 0-based character index where the line of the character index ci starts
LineStartOf(cs, ci) ==
  LET starts == {p \in 0..ci : p = 0 \/ cs[p] = chNl}
  IN CHOOSE p \in starts : \A q \in starts : q <= p

\* the number of characters of the line that starts at character index ls
LineLen(cs, ls) ==
  LET ends == {e \in ls..Len(cs) : e = Len(cs) \/ cs[e + 1] = chNl}
  IN (CHOOSE e \in ends : \A f \in ends : e <= f) - ls

\* the number of characters C8 says are removed from the line at ls
IndentOf(cs, ls) ==
  IF LineLen(cs, ls) >= 1 /\ cs[ls + 1] = chTab THEN 1
  ELSE IF /\ LineLen(cs, ls) >= TAB_SIZE
          /\ \A n \in 1..TAB_SIZE : cs[ls + n] = chSp
       THEN TAB_SIZE
       ELSE 0

\* C8: on a buffer that can be edited, decrease_indentation removes the tab
\* the cursor's line starts with, or the 4 spaces that are the first 4
\* characters of that line, and otherwise changes nothing; the characters
\* outside the removed indentation stay.
C8_RemovesIndentation ==
  (/\ last.op = "decrease_indentation"
   /\ is_mutable(kind)
   /\ ~AsStrPanics(kind, pre)) =>
    /\ ~last.panic
    /\ ~AsStrPanics(kind, buf)
    /\ LET cs == Chars(Before)
           ls == LineStartOf(cs, last.a)
       IN After = Flatten(RemoveChars(cs, ls, ls + IndentOf(cs, ls)))

\* C9: after decrease_indentation a cursor that was at the start of its line
\* is where it was, and any other cursor has moved left by the number of
\* characters removed from the buffer.
C9_CursorShift ==
  (last.op = "decrease_indentation" /\ ~AsStrPanics(kind, pre)) =>
    /\ ~last.panic
    /\ ~AsStrPanics(kind, buf)
    /\ IF last.a = LineStartOf(Chars(Before), last.a)
       THEN ccursor.index = last.a
       ELSE ccursor.index = last.a - (CharCount(Before) - CharCount(After))

\* C11: on String, Cow<str> and String64, delete_char_range(start..end) with
\* start > end, or with a range that goes beyond the character count, fails
\* by assertion and leaves the contents as they were; nothing is clamped.
C11_BadRangeAsserts ==
  (/\ last.op = "delete_char_range"
   /\ is_mutable(kind)
   /\ ~AsStrPanics(kind, pre)
   /\ (last.a > last.b \/ last.b > CharCount(Before))) =>
    (last.panic /\ buf = pre)

\* C12: push(s) on a String64 with len() + s.len() > 64 does not panic and
\* leaves all 64 bytes as they were.
C12_PushOverflowNoOp ==
  (last.op = "push" /\ String64Len(pre) + Len(last.text) > Cap) =>
    (~last.panic /\ buf = pre)

\* "hello" pushed on a String64 holding 63 bytes has changed nothing
C12_Witness ==
  /\ last.op = "push"
  /\ pre = Rep(chA, Cap - 1) \o chNul
  /\ last.text = Hello
  /\ ~last.panic
  /\ buf = pre

\* C13: on a buffer that can be edited, delete_selected removes the
\* characters at [min, max), min and max being the smaller and the larger
\* character index of the two cursors in whatever order they come, and
\* returns the cursor at min that prefers the next row; an empty selection
\* leaves the text as it was.
C13_DeleteSelected ==
  (/\ last.op = "delete_selected"
   /\ is_mutable(kind)
   /\ ~AsStrPanics(kind, pre)) =>
    LET min == Min(last.a, last.b)
        max == Max(last.a, last.b)
    IN /\ ~last.panic
       /\ ~AsStrPanics(kind, buf)
       /\ After = Flatten(RemoveChars(Chars(Before), min, max))
       /\ ccursor = [index |-> min, prefer_next_row |-> TRUE]
       /\ min = max => After = Before

\* "caf\u{e9}" with the selection from 2 back to 1 deleted is "cf\u{e9}",
\* and the cursor is at 1
C13_Witness ==
  /\ kind = "String"
  /\ last.op = "delete_selected"
  /\ last.a = 2
  /\ last.b = 1
  /\ pre = Cafe
  /\ buf = <<99, 102>> \o chEAcute
  /\ ccursor = [index |-> 1, prefer_next_row |-> TRUE]

\* C14: delete_previous_char with the cursor at 0 leaves the buffer as it was
\* and returns the cursor it was given, both fields; with the cursor at an
\* index in 1..char count, on a buffer that can be edited, it removes the one
\* character before the cursor and returns a cursor at index - 1.
C14_DeletePreviousChar ==
  (last.op = "delete_previous_char" /\ ~AsStrPanics(kind, pre)) =>
    /\ ~last.panic
    /\ ~AsStrPanics(kind, buf)
    /\ IF last.a = 0
       THEN /\ buf = pre
            /\ ccursor = [index |-> 0, prefer_next_row |-> (last.b = 1)]
       ELSE is_mutable(kind) =>
              /\ After = Flatten(RemoveChars(Chars(Before), last.a - 1,
                                             last.a))
              /\ ccursor.index = last.a - 1

\* a String64 holding "caf\u{e9}" holds "caf" after delete_previous_char at
\* its end, and the cursor is at 3
C14_Witness ==
  /\ kind = "String64"
  /\ last.op = "delete_previous_char"
  /\ last.a = 4
  /\ Before = Cafe
  /\ After = <<99, 97, 102>>
  /\ ccursor.index = 3

\* C15: delete_next_char with the cursor at the end of the text (the empty
\* text included) does not panic, leaves the text as it was and returns a
\* cursor at the same index; with the cursor before the end, on a buffer that
\* can be edited, it removes the one character at the cursor.
C15_DeleteNextChar ==
  (last.op = "delete_next_char" /\ ~AsStrPanics(kind, pre)) =>
    /\ ~last.panic
    /\ ~AsStrPanics(kind, buf)
    /\ IF last.a = CharCount(Before)
       THEN After = Before /\ ccursor.index = last.a
       ELSE is_mutable(kind) =>
              After = Flatten(RemoveChars(Chars(Before), last.a, last.a + 1))

\* delete_next_char on an empty String has returned, the String still empty
C15_Witness ==
  /\ kind = "String"
  /\ last.op = "delete_next_char"
  /\ last.a = 0
  /\ pre = <<>>
  /\ ~last.panic
  /\ buf = <<>>
  /\ ccursor.index = 0

\* the character index where the paragraph of the character index ci ends
ParagraphEndOf(cs, ci) ==
  LineStartOf(cs, ci) + LineLen(cs, LineStartOf(cs, ci))

\* C16: on a buffer that can be edited, delete_paragraph_before_cursor takes
\* the start of the paragraph of the selection's smaller cursor for the
\* smaller cursor: when the larger cursor is there too it does what one
\* delete_previous_char there does, otherwise it removes the characters from
\* that start to the larger cursor and no other.  delete_paragraph_after_cursor
\* does the same with the end of the paragraph of the larger cursor, one
\* delete_next_char and the characters from the smaller cursor to that end.
C16_DeleteParagraph ==
  (/\ last.op \in {"delete_paragraph_before_cursor",
                   "delete_paragraph_after_cursor"}
   /\ is_mutable(kind)
   /\ ~AsStrPanics(kind, pre)) =>
    LET cs    == Chars(Before)
        min   == Min(last.a, last.b)
        max   == Max(last.a, last.b)
        start == LineStartOf(cs, min)
        end   == ParagraphEndOf(cs, max)
    IN /\ ~last.panic
       /\ ~AsStrPanics(kind, buf)
       /\ last.op = "delete_paragraph_before_cursor" =>
            IF start = max
            THEN /\ After = Flatten(RemoveChars(cs, Max(start - 1, 0), start))
                 /\ ccursor.index = Max(start - 1, 0)
            ELSE /\ After = Flatten(RemoveChars(cs, start, max))
                 /\ ccursor.index = start
       /\ last.op = "delete_paragraph_after_cursor" =>
            /\ After = Flatten(RemoveChars(cs, min,
                                 IF end = min THEN Min(min + 1, Len(cs))
                                 ELSE end))
            /\ ccursor.index = min

\* "a\u{e9}\nb\n\nx" with the cursor in its empty third paragraph:
\* delete_paragraph_before_cursor has removed the line feed before the
\* cursor and nothing else
C16_Witness ==
  /\ kind = "String"
  /\ last.op = "delete_paragraph_before_cursor"
  /\ last.a = 5
  /\ last.b = 5
  /\ pre = chA \o chEAcute \o chNl \o chB \o chNl \o chNl \o chX
  /\ buf = chA \o chEAcute \o chNl \o chB \o chNl \o chX
  /\ ccursor.index = 4

\* C17: on String, Cow<str> and String64, whatever the buffer holds, clear()
\* returns and leaves the empty text, and a clear() right after a clear()
\* leaves the buffer exactly as the first left it.
C17_ClearIdempotent ==
  [][(last'.op = "clear" /\ is_mutable(kind)) =>
       (/\ ~last'.panic
        /\ ~AsStrPanics(kind, buf')
        /\ AsStr(kind, buf') = <<>>
        /\ last.op = "clear" => (buf' = buf /\ owned' = owned))]_vars

\* a String64 that was empty after its first call has been cleared by its
\* second and is empty as before
C17_Witness ==
  /\ kind = "String64"
  /\ steps = 2
  /\ last.op = "clear"
  /\ pre = String64New
  /\ buf = String64New

\* C18: String64::try_from(bytes) returns the UTF-8 error whenever the first
\* min(len, 64) bytes are not valid UTF-8, a 64-byte prefix that ends inside
\* a character included, and builds nothing from a shorter prefix; when it
\* returns Ok the 64 bytes stored are those first bytes, then zero bytes.
C18_TryFromStrict ==
  last.op = "try_from" =>
    LET copied == SubSeq(last.text, 1, Min(Len(last.text), Cap))
    IN /\ ~IsUtf8(copied) => (last.ret = 0 /\ buf = pre)
       /\ last.ret = 1 => buf = Padded(copied)
       /\ ~last.panic

\* try_from on 63 bytes "a" followed by the two bytes of "\u{e9}" has
\* returned the error
C18_Witness ==
  /\ last.op = "try_from"
  /\ last.text = Rep(chA, Cap - 1) \o chEAcute
  /\ last.ret = 0
  /\ buf = String64New

\* C19: on every implementation, a cursor that is inside the text
\* (index <= char count) before insert_text_at is inside the text after it,
\* also when a String64 drops what does not fit in its 64 bytes; so it stays
\* inside over any number of insert_text_at calls.
C19_CursorStaysInText ==
  (/\ last.op = "insert_text_at"
   /\ ~AsStrPanics(kind, pre)
   /\ last.a <= CharCount(Before)
   /\ ~last.panic
   /\ ~AsStrPanics(kind, buf)) =>
    ccursor.index <= CharCount(After)

\* C20: after decrease_indentation with the cursor inside the text, the
\* cursor is still on its line: not before the start of that line and not
\* after the end of the text, wherever on the line it was, inside the
\* indentation or after it.
C20_CursorStaysOnLine ==
  (/\ last.op = "decrease_indentation"
   /\ ~AsStrPanics(kind, pre)
   /\ last.a <= CharCount(Before)
   /\ ~last.panic
   /\ ~AsStrPanics(kind, buf)) =>
    /\ ccursor.index >= LineStartOf(Chars(Before), last.a)
    /\ ccursor.index <= CharCount(After)

====
